---- MODULE Spec2Model ----
(***************************************************************************)
(* Model of vector3d.h: the class template Vector3D<Type> and its free     *)
(* operators, instantiated for Type = int and Type = double.               *)
(*                                                                         *)
(* int is a two's complement integer of IntBits bits.  Signed overflow,    *)
(* division by zero and the read of an uninitialized local are undefined:  *)
(* the model draws their result from a set of outcomes.                    *)
(*                                                                         *)
(* double is a binary floating-point format with MantBits mantissa bits,   *)
(* gradual underflow, round-to-nearest-even, signed zeros, infinities and  *)
(* NaN.  A finite value is sign and magnitude, the magnitude counted in    *)
(* units of 2^-FracBits.  MantBits is wide enough to hold every int        *)
(* exactly, as the 53 bits of a double hold every 32-bit int.  Every       *)
(* floating-point operation rounds on its own (no fused multiply-add).     *)
(***************************************************************************)
EXTENDS Integers, Sequences, FiniteSets, TLC

\* Width of int in bits.
IntBits == 5
\* Fraction bits below 1.0 in the floating-point format.
FracBits == 2
\* Largest binary exponent of the floating-point format.
MaxExp == 6

\* ------------------------------------------------------------------ int

MinInt == -(2^(IntBits - 1))
MaxInt == 2^(IntBits - 1) - 1

InRange(n) == MinInt <= n /\ n <= MaxInt

\* The value a two's complement machine keeps of n.
Wrap(n) == ((n - MinInt) % (2^IntBits)) + MinInt

\* Outcomes of a signed operation whose mathematical result n is out of
\* range (undefined behaviour): the wrapped value or either extreme.
Overflowed(n) == {Wrap(n), MinInt, MaxInt}

IAdd(a, b) == IF InRange(a + b) THEN {a + b} ELSE Overflowed(a + b)
ISub(a, b) == IF InRange(a - b) THEN {a - b} ELSE Overflowed(a - b)
IMul(a, b) == IF InRange(a * b) THEN {a * b} ELSE Overflowed(a * b)

Abs(n) == IF n < 0 THEN -n ELSE n

\* C++ integer division truncates towards zero.
TruncDiv(a, b) ==
    IF (a < 0) = (b < 0) THEN Abs(a) \div Abs(b) ELSE -(Abs(a) \div Abs(b))

\* The divisions that are undefined for int: by zero, and MinInt / -1.
IDivUndefined(a, b) == b = 0 \/ (a = MinInt /\ b = -1)

\* Values an undefined int division leaves when it does not trap.
IDiv(a, b) ==
    IF b = 0 THEN {0, MinInt, MaxInt}
    ELSE IF InRange(TruncDiv(a, b)) THEN {TruncDiv(a, b)}
    ELSE Overflowed(TruncDiv(a, b))

\* --------------------------------------------------------------- double

MantBits == IntBits + FracBits - 1
One == 2^FracBits
MaxMag == (2^MantBits - 1) * 2^MaxExp

FNaN == [c |-> "nan", sg |-> 0, m |-> 0]
FInf(s) == [c |-> "inf", sg |-> s, m |-> 0]
FFin(s, mag) == [c |-> "fin", sg |-> s, m |-> mag]

IsNaN(a) == a.c = "nan"
IsInf(a) == a.c = "inf"
IsZero(a) == a.c = "fin" /\ a.m = 0
Xor(s, t) == IF s = t THEN 0 ELSE 1
FNeg(a) == IF IsNaN(a) THEN a ELSE [a EXCEPT !.sg = 1 - a.sg]

\* Exponent of the binade of magnitude q: least e with q < 2^MantBits * 2^e.
RECURSIVE ExpOf(_)
ExpOf(q) == IF q < 2^MantBits THEN 0 ELSE 1 + ExpOf(q \div 2)

\* The rational n/d (n >= 0, d > 0, in units) rounded to nearest, ties to
\* even; infinity past the largest finite magnitude.
RoundRat(s, n, d) ==
    LET sp == 2^ExpOf(n \div d)
        lo == (n \div (d * sp)) * sp
        r2 == 2 * (n - lo * d)
        up == r2 > sp * d \/ (r2 = sp * d /\ (lo \div sp) % 2 = 1)
        r  == IF up THEN lo + sp ELSE lo
    IN  IF r > MaxMag THEN FInf(s) ELSE FFin(s, r)

RECURSIVE ISqrt(_)
ISqrt(n) ==
    IF n < 2 THEN n
    ELSE LET r == 2 * ISqrt(n \div 4)
         IN  IF (r + 1) * (r + 1) <= n THEN r + 1 ELSE r

\* sqrt(t) for a magnitude whose square is t units^2, rounded to nearest.
RoundSqrt(t) ==
    LET g  == ISqrt(t)
        sp == 2^ExpOf(g)
        lo == (g \div sp) * sp
        hi == lo + sp
        up == 4 * t > (lo + hi) * (lo + hi)
              \/ (4 * t = (lo + hi) * (lo + hi) /\ (lo \div sp) % 2 = 1)
    IN  IF lo * lo = t THEN FFin(0, lo)
        ELSE IF up THEN FFin(0, hi) ELSE FFin(0, lo)

FAdd(a, b) ==
    IF IsNaN(a) \/ IsNaN(b) THEN FNaN
    ELSE IF IsInf(a) /\ IsInf(b) THEN (IF a.sg = b.sg THEN a ELSE FNaN)
    ELSE IF IsInf(a) THEN a
    ELSE IF IsInf(b) THEN b
    ELSE LET sa == IF a.sg = 1 THEN -a.m ELSE a.m
             sb == IF b.sg = 1 THEN -b.m ELSE b.m
             t  == sa + sb
         IN  IF t = 0 THEN FFin(IF a.sg = 1 /\ b.sg = 1 THEN 1 ELSE 0, 0)
             ELSE RoundRat(IF t < 0 THEN 1 ELSE 0, Abs(t), 1)

FSub(a, b) == FAdd(a, FNeg(b))

FMul(a, b) ==
    IF IsNaN(a) \/ IsNaN(b) THEN FNaN
    ELSE IF (IsInf(a) /\ IsZero(b)) \/ (IsZero(a) /\ IsInf(b)) THEN FNaN
    ELSE IF IsInf(a) \/ IsInf(b) THEN FInf(Xor(a.sg, b.sg))
    ELSE RoundRat(Xor(a.sg, b.sg), a.m * b.m, One)

FDiv(a, b) ==
    IF IsNaN(a) \/ IsNaN(b) THEN FNaN
    ELSE IF (IsInf(a) /\ IsInf(b)) \/ (IsZero(a) /\ IsZero(b)) THEN FNaN
    ELSE IF IsInf(a) \/ IsZero(b) THEN FInf(Xor(a.sg, b.sg))
    ELSE IF IsInf(b) THEN FFin(Xor(a.sg, b.sg), 0)
    ELSE RoundRat(Xor(a.sg, b.sg), a.m * One, b.m)

FSqrt(a) ==
    IF IsNaN(a) THEN FNaN
    ELSE IF IsZero(a) THEN a
    ELSE IF a.sg = 1 THEN FNaN
    ELSE IF IsInf(a) THEN a
    ELSE RoundSqrt(a.m * One)

\* IEEE comparison: NaN equals nothing, the two zeros are equal.
FEq(a, b) ==
    /\ ~IsNaN(a)
    /\ ~IsNaN(b)
    /\ (IsZero(a) /\ IsZero(b)) \/ a = b

\* Conversion int -> double.
IntToDouble(n) == RoundRat(IF n < 0 THEN 1 ELSE 0, Abs(n) * One, 1)

\* ------------------------------------------------- scalars of type Type

\* The element types the template is instantiated with.
Types == {"int", "double"}

AddS(T, a, b) == IF T = "int" THEN IAdd(a, b) ELSE {FAdd(a, b)}
SubS(T, a, b) == IF T = "int" THEN ISub(a, b) ELSE {FSub(a, b)}
MulS(T, a, b) == IF T = "int" THEN IMul(a, b) ELSE {FMul(a, b)}
DivS(T, a, b) == IF T = "int" THEN IDiv(a, b) ELSE {FDiv(a, b)}
EqS(T, a, b) == IF T = "int" THEN a = b ELSE FEq(a, b)

\* DivTraps with a floating-point division by zero trapping as well.
DivTraps_zero(T, a, b) ==
    IF T = "int" THEN IDivUndefined(a, b) ELSE IsZero(b)

\* Whether a / b raises the hardware's divide error (int only: floating
\* division never traps).
DivTraps(T, a, b) == T = "int" /\ IDivUndefined(a, b)

\* Conversion Type -> double.
ToDouble(T, a) == IF T = "int" THEN IntToDouble(a) ELSE a

\* Conversion of an int literal to Type.
Lit(T, n) == IF T = "int" THEN n ELSE IntToDouble(n)

\* ------------------------------------------------------------ Vector3D

Vector3D(x, y, z) == [m_x |-> x, m_y |-> y, m_z |-> z]

Vector3D0(T) == Vector3D(Lit(T, 0), Lit(T, 0), Lit(T, 0))

setX(A, x) == [A EXCEPT !.m_x = x]
\* setY storing into the wrong member.
setY_wrong(A, y) == [A EXCEPT !.m_x = y]

setY(A, y) == [A EXCEPT !.m_y = y]
setZ(A, z) == [A EXCEPT !.m_z = z]

\* l + m + r, evaluated left to right in Type, over the outcomes of its terms.
Sum3(T, L, M, R) ==
    UNION {AddS(T, s, r) : s \in UNION {AddS(T, l, m) : l \in L, m \in M},
                           r \in R}

\* module without the square of the last component.
module_nosq(T, A) ==
    {FSqrt(ToDouble(T, s)) :
        s \in Sum3(T, MulS(T, A.m_x, A.m_x), MulS(T, A.m_y, A.m_y),
                      {A.m_z})}

module(T, A) ==
    {FSqrt(ToDouble(T, s)) :
        s \in Sum3(T, MulS(T, A.m_x, A.m_x), MulS(T, A.m_y, A.m_y),
                      MulS(T, A.m_z, A.m_z))}

operatorPlus(T, A, B) ==
    {Vector3D(x, y, z) : x \in AddS(T, A.m_x, B.m_x),
                         y \in AddS(T, A.m_y, B.m_y),
                         z \in AddS(T, A.m_z, B.m_z)}

\* operator- with its operands exchanged.
operatorMinus_swapped(T, A, B) ==
    {Vector3D(x, y, z) : x \in SubS(T, B.m_x, A.m_x),
                         y \in SubS(T, B.m_y, A.m_y),
                         z \in SubS(T, B.m_z, A.m_z)}

operatorMinus(T, A, B) ==
    {Vector3D(x, y, z) : x \in SubS(T, A.m_x, B.m_x),
                         y \in SubS(T, A.m_y, B.m_y),
                         z \in SubS(T, A.m_z, B.m_z)}

operatorMulSV(T, s, A) ==
    {Vector3D(x, y, z) : x \in MulS(T, s, A.m_x),
                         y \in MulS(T, s, A.m_y),
                         z \in MulS(T, s, A.m_z)}

operatorMulVS(T, A, s) ==
    {Vector3D(x, y, z) : x \in MulS(T, s, A.m_x),
                         y \in MulS(T, s, A.m_y),
                         z \in MulS(T, s, A.m_z)}

operatorMulVV(T, A, B) ==
    {Vector3D(x, y, z) : x \in MulS(T, A.m_x, B.m_x),
                         y \in MulS(T, A.m_y, B.m_y),
                         z \in MulS(T, A.m_z, B.m_z)}

\* A call either returns a value or ends the program with a divide error.
Returned(v) == [st |-> "ok", val |-> v]
Trapped == [st |-> "trap"]
IllFormed == [st |-> "ill_formed"]

operatorDivVS(T, A, s) ==
    {Returned(Vector3D(x, y, z)) : x \in DivS(T, A.m_x, s),
                                   y \in DivS(T, A.m_y, s),
                                   z \in DivS(T, A.m_z, s)}
    \cup (IF \/ DivTraps(T, A.m_x, s)
             \/ DivTraps(T, A.m_y, s)
             \/ DivTraps(T, A.m_z, s)
          THEN {Trapped} ELSE {})

operatorDivVV(T, A, B) ==
    {Returned(Vector3D(x, y, z)) : x \in DivS(T, A.m_x, B.m_x),
                                   y \in DivS(T, A.m_y, B.m_y),
                                   z \in DivS(T, A.m_z, B.m_z)}
    \cup (IF \/ DivTraps(T, A.m_x, B.m_x)
             \/ DivTraps(T, A.m_y, B.m_y)
             \/ DivTraps(T, A.m_z, B.m_z)
          THEN {Trapped} ELSE {})

operatorEq(T, A, B) ==
    EqS(T, A.m_x, B.m_x) /\ EqS(T, A.m_y, B.m_y) /\ EqS(T, A.m_z, B.m_z)

\* Template argument deduction for operator/(const Vector3D<Type>&, const
\* Type): Type is deduced from both arguments and the two must agree.
DeduceDivVS(TA, TS) == IF TA = TS THEN TA ELSE "none"

\* (*this) / this->module(): a Vector3D<Type> divided by a double.
direction(T, A) ==
    IF DeduceDivVS(T, "double") = "none" THEN {IllFormed}
    ELSE UNION {operatorDivVS(DeduceDivVS(T, "double"), A, m) :
                    m \in module(T, A)}

\* scalarProduct adding A's z component instead of the product's.
scalarProduct_az(T, A, B) ==
    {ToDouble(T, s) :
        s \in UNION {Sum3(T, {C.m_x}, {C.m_y}, {A.m_z}) :
                        C \in operatorMulVV(T, A, B)}}

scalarProduct(T, A, B) ==
    {ToDouble(T, s) :
        s \in UNION {Sum3(T, {C.m_x}, {C.m_y}, {C.m_z}) :
                        C \in operatorMulVV(T, A, B)}}

\* a * b - c * d in Type.
MulSub(T, a, b, c, d) ==
    UNION {SubS(T, p, q) : p \in MulS(T, a, b), q \in MulS(T, c, d)}

\* crossProduct with the last component's terms added.
crossProduct_plus(T, A, B) ==
    {Vector3D(x, y, z) :
        x \in MulSub(T, A.m_y, B.m_z, A.m_z, B.m_y),
        y \in MulSub(T, A.m_z, B.m_x, A.m_x, B.m_z),
        z \in UNION {AddS(T, p, q) : p \in MulS(T, A.m_x, B.m_y),
                                     q \in MulS(T, A.m_y, B.m_x)}}

crossProduct(T, A, B) ==
    {Vector3D(x, y, z) : x \in MulSub(T, A.m_y, B.m_z, A.m_z, B.m_y),
                         y \in MulSub(T, A.m_z, B.m_x, A.m_x, B.m_z),
                         z \in MulSub(T, A.m_x, B.m_y, A.m_y, B.m_x)}

\* SqDiff with the second factor a sum.
SqDiff_sum(T, a, b) ==
    UNION {MulS(T, p, q) : p \in SubS(T, a, b), q \in AddS(T, a, b)}

\* (a - b) * (a - b) in Type, each difference evaluated on its own.
SqDiff(T, a, b) ==
    UNION {MulS(T, p, q) : p \in SubS(T, a, b), q \in SubS(T, a, b)}

distance(T, A, B) ==
    {FSqrt(ToDouble(T, s)) :
        s \in Sum3(T, SqDiff(T, A.m_x, B.m_x), SqDiff(T, A.m_y, B.m_y),
                      SqDiff(T, A.m_z, B.m_z))}

\* ------------------------------------------------------ stream operators

DigitChar == <<"0", "1", "2", "3", "4", "5", "6", "7", "8", "9">>

DigitValue(ch) == CHOOSE d \in 0..9 : DigitChar[d + 1] = ch

IsDigit(ch) == \E d \in 0..9 : DigitChar[d + 1] = ch

\* ostream << int: decimal digits, a leading '-' for negative values.
RECURSIVE Digits(_)
Digits(n) ==
    IF n < 10 THEN <<DigitChar[n + 1]>>
    ELSE Digits(n \div 10) \o <<DigitChar[(n % 10) + 1]>>

\* FormatInt without the sign.
FormatInt_nosign(n) == Digits(Abs(n))

FormatInt(n) == IF n < 0 THEN <<"-">> \o Digits(-n) ELSE Digits(n)

\* os << A.x() << ", " << A.y() << ", " << A.z()
operatorOut(os, A) ==
    os \o FormatInt(A.m_x) \o <<",", " ">> \o FormatInt(A.m_y)
       \o <<",", " ">> \o FormatInt(A.m_z)

\* An input stream: the characters not yet consumed and the state bits.
IStream(text) == [buf |-> text, fail |-> FALSE, eof |-> FALSE]

RECURSIVE SkipWs(_)
SkipWs(b) == IF b # <<>> /\ Head(b) = " " THEN SkipWs(Tail(b)) ELSE b

RECURSIVE NDigits(_)
NDigits(b) == IF b # <<>> /\ IsDigit(Head(b)) THEN 1 + NDigits(Tail(b)) ELSE 0

RECURSIVE DigitsValue(_, _)
DigitsValue(b, acc) ==
    IF b = <<>> THEN acc
    ELSE DigitsValue(Tail(b), 10 * acc + DigitValue(Head(b)))

\* A local of type Type: uninitialized until something is stored in it.
Uninit == [init |-> FALSE, v |-> 0]
Stored(n) == [init |-> TRUE, v |-> n]

\* is >> x for int x, as C++11 and later define it.  A stream that is not good, or that ends before a
\* token starts, sets failbit and leaves x alone; a token that is no number
\* stores 0 and sets failbit; a number out of range stores the nearest
\* extreme and sets failbit; reaching the end of the text sets eofbit.
ExtractInt(is, x) ==
    IF is.fail \/ is.eof THEN [is |-> [is EXCEPT !.fail = TRUE], x |-> x]
    ELSE
      LET b == SkipWs(is.buf) IN
      IF b = <<>>
      THEN [is |-> [buf |-> b, fail |-> TRUE, eof |-> TRUE], x |-> x]
      ELSE
        LET neg  == Head(b) = "-"
            b1   == IF Head(b) \in {"-", "+"} THEN Tail(b) ELSE b
            k    == NDigits(b1)
            rest == SubSeq(b1, k + 1, Len(b1))
            mag  == DigitsValue(SubSeq(b1, 1, k), 0)
            n    == IF neg THEN -mag ELSE mag
            bad  == k = 0 \/ ~InRange(n)
            v    == IF k = 0 THEN 0
                    ELSE IF n > MaxInt THEN MaxInt
                    ELSE IF n < MinInt THEN MinInt
                    ELSE n
        IN  [is |-> [buf |-> rest, fail |-> bad, eof |-> rest = <<>>],
             x  |-> Stored(v)]

\* Values the read of an uninitialized int may yield.
Indeterminate == {MinInt, 0, MaxInt}

\* The values a local yields when read.
ReadLocal(x) == IF x.init THEN {x.v} ELSE Indeterminate

\* operator>> storing into the vector only when the extraction succeeded.
operatorIn_guarded(is, A) ==
    LET e1 == ExtractInt(is, Uninit)
        e2 == ExtractInt(e1.is, Uninit)
        e3 == ExtractInt(e2.is, Uninit)
    IN  IF e3.is.fail
        THEN {[is |-> e3.is, loc |-> <<e1.x, e2.x, e3.x>>, A |-> A]}
        ELSE {[is |-> e3.is, loc |-> <<e1.x, e2.x, e3.x>>,
               A |-> Vector3D(e1.x.v, e2.x.v, e3.x.v)]}

\* Type x,y,z; is >> x >> y >> z; A.setX(x); A.setY(y); A.setZ(z); return is;
\* the outcomes: the stream afterwards and the vector afterwards.
operatorIn(is, A) ==
    LET e1 == ExtractInt(is, Uninit)
        e2 == ExtractInt(e1.is, Uninit)
        e3 == ExtractInt(e2.is, Uninit)
    IN  {[is |-> e3.is, loc |-> <<e1.x, e2.x, e3.x>>,
          A |-> setZ(setY(setX(A, x), y), z)] :
            x \in ReadLocal(e1.x), y \in ReadLocal(e2.x), z \in ReadLocal(e3.x)}

\* The text of a written vector with its commas taken out, as the reader of
\* a round trip is handed it.
RECURSIVE StripCommas(_)
StripCommas(t) ==
    IF t = <<>> THEN <<>>
    ELSE IF Head(t) = "," THEN StripCommas(Tail(t))
    ELSE <<Head(t)>> \o StripCommas(Tail(t))

\* --------------------------------------------------------------- state

VARIABLES
    T,        \* the element type Type of this instantiation
    A, B,     \* two Vector3D<Type> objects
    res,      \* the last expression evaluated and its outcome
    hist,     \* per component of A: the constructor's or last setter's argument
    os,       \* the text written to the output stream
    is,       \* the input stream
    src,      \* what the input stream holds: "none", "pipe" or "feed"
    reads,    \* operator>> calls made on the input stream
    written,  \* the vectors written to os
    prevA,    \* A before the last call that changed it
    loc,      \* the locals x, y, z of the last operator>> call
    pc        \* the last call made on A or the streams

vars == <<T, A, B, res, hist, os, is, src, reads, written, prevA, loc, pc>>

ioVars == <<hist, os, is, src, reads, written, prevA, loc, pc>>

\* Calls of operator>> made on one stream.
MaxReads == 2

Cube(S) == {Vector3D(x, y, z) : x \in S, y \in S, z \in S}

MaxDouble == FFin(0, MaxMag)

\* Component values the vectors are constructed from.
Vecs(t) ==
    IF t = "int"
    THEN Cube({0, 1, 2}) \cup Cube({MinInt, -1, MaxInt})
    ELSE Cube({Lit(t, 0), Lit(t, 1), Lit(t, 2)})
         \cup Cube({FInf(0), FNaN, FNeg(MaxDouble)})

\* Scalars of type Type passed to the scalar operators.
Scalars(t) == {Lit(t, -1), Lit(t, 0), Lit(t, 2)}

NoRes == [op |-> "none"]

IoIdle ==
    /\ os = <<>>
    /\ is = IStream(<<>>)
    /\ src = "none"
    /\ reads = 0
    /\ written = <<>>
    /\ prevA = A
    /\ loc = <<Uninit, Uninit, Uninit>>
    /\ pc = "constructed"

\* Vector3D() or Vector3D(x, y, z), for both objects.
Init ==
    /\ T \in Types
    /\ A \in Vecs(T) \cup {Vector3D0(T)}
    /\ B \in Vecs(T) \cup {Vector3D0(T)}
    /\ res = NoRes
    /\ hist = A
    /\ IoIdle

\* The operators are pure: an expression is evaluated on the operands as
\* constructed, and its value is held until it is dropped.
Eval(name, outcomes) ==
    /\ res = NoRes
    /\ res' \in {[op |-> name, st |-> "ok", val |-> v] : v \in outcomes}
    /\ UNCHANGED <<T, A, B, ioVars>>

EvalS(name, s, outcomes) ==
    /\ res = NoRes
    /\ res' \in {[op |-> name, s |-> s, st |-> o.st,
                  val |-> IF o.st = "ok" THEN o.val ELSE FALSE] : o \in outcomes}
    /\ UNCHANGED <<T, A, B, ioVars>>

Plus == Eval("plus", operatorPlus(T, A, B))
Minus == Eval("minus", operatorMinus(T, A, B))
MulSV == \E s \in Scalars(T) :
            EvalS("mulSV", s, {Returned(v) : v \in operatorMulSV(T, s, A)})
MulVS == \E s \in Scalars(T) :
            EvalS("mulVS", s, {Returned(v) : v \in operatorMulVS(T, A, s)})
MulVV == Eval("mulVV", operatorMulVV(T, A, B))
DivVS == \E s \in Scalars(T) : EvalS("divVS", s, operatorDivVS(T, A, s))
DivVV == EvalS("divVV", B, operatorDivVV(T, A, B))
Equal == Eval("eq", {operatorEq(T, A, B)})
Module == Eval("module", module(T, A))
Direction == EvalS("direction", A, direction(T, A))
ScalarProduct == Eval("scalarProduct", scalarProduct(T, A, B))
CrossProduct == Eval("crossProduct", crossProduct(T, A, B))
Distance == Eval("distance", distance(T, A, B))

\* (A - B) + B == A
SubThenAdd ==
    Eval("subThenAdd",
         {operatorEq(T, S, A) :
             S \in UNION {operatorPlus(T, D, B) : D \in operatorMinus(T, A, B)}})

\* crossProduct(A, B) == -1 * crossProduct(B, A)
CrossAnti ==
    Eval("crossAnti",
         {operatorEq(T, C, N) :
             C \in crossProduct(T, A, B),
             N \in UNION {operatorMulSV(T, Lit(T, -1), D) :
                             D \in crossProduct(T, B, A)}})

\* scalarProduct(A, B) == scalarProduct(B, A)
DotSym ==
    Eval("dotSym",
         {FEq(p, q) : p \in scalarProduct(T, A, B),
                      q \in scalarProduct(T, B, A)})

\* The value of the last expression goes out of scope.
Drop ==
    /\ res # NoRes
    /\ res' = NoRes
    /\ UNCHANGED <<T, A, B, ioVars>>

Next ==
    \/ Plus
    \/ Minus
    \/ MulSV
    \/ MulVS
    \/ MulVV
    \/ DivVS
    \/ DivVV
    \/ Equal
    \/ Module
    \/ Direction
    \/ ScalarProduct
    \/ CrossProduct
    \/ Distance
    \/ SubThenAdd
    \/ CrossAnti
    \/ DotSym
    \/ Drop

Spec == Init /\ [][Next]_vars

\* ------------------------------------------- setters and stream operators

\* Component values of the int vectors written and set.
IoVals == {MinInt, 0, MaxInt}

\* Texts handed to operator>>: empty, too short, not a number, out of
\* range, comma separated, and three numbers.
Texts ==
    { <<>>,
      <<"1", " ", "2">>,
      <<",">>,
      <<"-">>,
      <<"9", "9", " ", "1", " ", "2">>,
      <<"7", ",", " ", "8", ",", " ", "3">>,
      <<" ", "3", " ", "-", "4", " ", "+", "5", " ">> }

InitIO ==
    /\ T = "int"
    /\ A \in Cube(IoVals) \cup {Vector3D0(T)}
    /\ B = Vector3D0(T)
    /\ res = NoRes
    /\ hist = A
    /\ IoIdle

SetX ==
    \E v \in IoVals :
        /\ A' = setX(A, v)
        /\ hist' = [hist EXCEPT !.m_x = v]
        /\ prevA' = A
        /\ pc' = "setX"
        /\ UNCHANGED <<T, B, res, os, is, src, reads, written, loc>>

SetY ==
    \E v \in IoVals :
        /\ A' = setY(A, v)
        /\ hist' = [hist EXCEPT !.m_y = v]
        /\ prevA' = A
        /\ pc' = "setY"
        /\ UNCHANGED <<T, B, res, os, is, src, reads, written, loc>>

SetZ ==
    \E v \in IoVals :
        /\ A' = setZ(A, v)
        /\ hist' = [hist EXCEPT !.m_z = v]
        /\ prevA' = A
        /\ pc' = "setZ"
        /\ UNCHANGED <<T, B, res, os, is, src, reads, written, loc>>

\* os << A, once on a fresh output stream.
Write ==
    /\ src = "none"
    /\ written = <<>>
    /\ os' = operatorOut(os, A)
    /\ written' = <<A>>
    /\ pc' = "write"
    /\ UNCHANGED <<T, A, B, res, hist, is, src, reads, prevA, loc>>

\* The written text, its commas stripped, becomes the input stream.
Pipe ==
    /\ src = "none"
    /\ written # <<>>
    /\ is' = IStream(StripCommas(os))
    /\ src' = "pipe"
    /\ pc' = "pipe"
    /\ UNCHANGED <<T, A, B, res, hist, os, reads, written, prevA, loc>>

\* The input stream is opened on a text from elsewhere.
Feed ==
    /\ src = "none"
    /\ written = <<>>
    /\ \E t \in Texts : is' = IStream(t)
    /\ src' = "feed"
    /\ pc' = "feed"
    /\ UNCHANGED <<T, A, B, res, hist, os, reads, written, prevA, loc>>

\* is >> A
Read ==
    /\ src # "none"
    /\ reads < MaxReads
    /\ \E o \in operatorIn(is, A) :
        /\ is' = o.is
        /\ A' = o.A
        /\ hist' = o.A
        /\ loc' = o.loc
    /\ prevA' = A
    /\ reads' = reads + 1
    /\ pc' = "read"
    /\ UNCHANGED <<T, B, res, os, src, written>>

NextIO ==
    \/ SetX
    \/ SetY
    \/ SetZ
    \/ Write
    \/ Pipe
    \/ Feed
    \/ Read

SpecIO == InitIO /\ [][NextIO]_vars

\* -------------------------------------------------------------- claims

Zero == Lit("double", 0)

Components(V) == {V.m_x, V.m_y, V.m_z}

\* No component of an int difference A - B leaves the range of int.
SubInRange(V, W) ==
    /\ InRange(V.m_x - W.m_x)
    /\ InRange(V.m_y - W.m_y)
    /\ InRange(V.m_z - W.m_z)

\* C1 as stated: for int vectors, (A - B) + B == A whatever the components.
C1_RestoreAlways ==
    (res.op = "subThenAdd" /\ T = "int") => res.val

\* C1, amended: for int vectors A and B whose component differences
\* A - B are all representable in int, (A - B) + B == A.
C1_RestoreInRange ==
    (res.op = "subThenAdd" /\ T = "int" /\ SubInRange(A, B)) => res.val

C1_Witness ==
    /\ res.op = "subThenAdd"
    /\ T = "int"
    /\ SubInRange(A, B)
    /\ A = Vector3D(-1, MaxInt, MinInt)
    /\ B = Vector3D(MaxInt, MaxInt, -1)
    /\ res.val

\* a * b - c * d evaluated in int without overflow.
MulSubInRange(a, b, c, d) ==
    InRange(a * b) /\ InRange(c * d) /\ InRange(a * b - c * d)

CrossInRange(V, W) ==
    /\ MulSubInRange(V.m_y, W.m_z, V.m_z, W.m_y)
    /\ MulSubInRange(V.m_z, W.m_x, V.m_x, W.m_z)
    /\ MulSubInRange(V.m_x, W.m_y, V.m_y, W.m_x)

\* Both sides of C2 are evaluated without int overflow, or, for double,
\* without a NaN component.
CrossDefined ==
    IF T = "int"
    THEN CrossInRange(A, B) /\ CrossInRange(B, A)
         /\ \A C \in crossProduct(T, B, A) :
                \A c \in Components(C) : InRange(-c)
    ELSE \A C \in crossProduct(T, A, B) :
            \A c \in Components(C) : ~IsNaN(c)

\* C2 as stated: crossProduct(A, B) == -1 * crossProduct(B, A) for all
\* vectors A and B.
C2_AntiCommAlways ==
    res.op = "crossAnti" => res.val

\* C2, amended: crossProduct(A, B) == -1 * crossProduct(B, A) whenever no
\* int product, difference or negation overflows and no double component
\* of the cross product is NaN.
C2_AntiCommDefined ==
    (res.op = "crossAnti" /\ CrossDefined) => res.val

C2_Witness ==
    /\ res.op = "crossAnti"
    /\ CrossDefined
    /\ T = "int"
    /\ A = Vector3D(1, 2, 2)
    /\ B = Vector3D(2, 0, 1)
    /\ res.val

Widen(t, V) ==
    Vector3D(ToDouble(t, V.m_x), ToDouble(t, V.m_y), ToDouble(t, V.m_z))

\* C3 as stated: for every element type, direction() returns the
\* Vector3D<double> with components x/module(), y/module(), z/module().
C3_DirectionEveryType ==
    res.op = "direction" =>
        /\ res.st = "ok"
        /\ Returned(res.val) \in
              UNION {operatorDivVS("double", Widen(T, A), m) :
                        m \in module(T, A)}

\* The sum of squares of an int vector, as a mathematical integer.
SumSq(V) == V.m_x * V.m_x + V.m_y * V.m_y + V.m_z * V.m_z

OneTwoTwo(t) == Vector3D(Lit(t, 1), Lit(t, 2), Lit(t, 2))

\* C4 as stated: module() is the square root of the mathematical value of
\* x*x + y*y + z*z for every vector (here every int vector).
C4_ModuleAlways ==
    (res.op = "module" /\ T = "int") =>
        res.val = FSqrt(IntToDouble(SumSq(A)))

\* C4, amended: for an int vector whose x*x + y*y + z*z is representable in
\* int, module() is the square root (rounded to double) of that sum; and
\* module() of (1, 2, 2) is 3 for int and for double.
C4_ModuleInRange ==
    res.op = "module" =>
        /\ (T = "int" /\ InRange(SumSq(A)))
              => res.val = FSqrt(IntToDouble(SumSq(A)))
        /\ A = OneTwoTwo(T) => FEq(res.val, Lit("double", 3))

C4_Witness ==
    /\ res.op = "module"
    /\ T = "int"
    /\ A = OneTwoTwo(T)
    /\ res.val = Lit("double", 3)

\* C5: an int vector written with operator<<, its commas stripped, and read
\* back with operator>> has the components that were written, and the
\* read does not fail.
C5_RoundTrip ==
    (pc = "read" /\ src = "pipe" /\ reads = 1) =>
        A = written[1] /\ ~is.fail

C5_Witness ==
    /\ pc = "read"
    /\ src = "pipe"
    /\ reads = 1
    /\ written = <<Vector3D(MinInt, 0, MaxInt)>>
    /\ prevA = Vector3D(0, MaxInt, MinInt)
    /\ A = written[1]

\* The divisor of the last division, component by component.
Divisor == IF res.op = "divVS" THEN Vector3D(res.s, res.s, res.s) ELSE res.s

DivDefined ==
    \/ T = "double"
    \/ /\ ~IDivUndefined(A.m_x, Divisor.m_x)
       /\ ~IDivUndefined(A.m_y, Divisor.m_y)
       /\ ~IDivUndefined(A.m_z, Divisor.m_z)

C7_SettersFrame ==
    /\ A = hist
    /\ pc = "setX" => (A.m_y = prevA.m_y /\ A.m_z = prevA.m_z)
    /\ pc = "setY" => (A.m_x = prevA.m_x /\ A.m_z = prevA.m_z)
    /\ pc = "setZ" => (A.m_x = prevA.m_x /\ A.m_y = prevA.m_y)

C7_Witness ==
    /\ pc = "setY"
    /\ prevA = Vector3D(MinInt, 0, MaxInt)
    /\ A = Vector3D(MinInt, MaxInt, MaxInt)
    /\ A = hist

IsFinite(t, V) == t = "int" \/ \A c \in Components(V) : c.c = "fin"

\* C8 as stated: distance(A, A) == 0 for every element type and every
\* choice of components.
C8_SelfDistanceAlways ==
    (res.op = "distance" /\ A = B) => FEq(res.val, Zero)

\* C8, amended: distance(A, A) == 0 for every int vector and for every
\* double vector with no infinite and no NaN component.
C8_SelfDistanceFinite ==
    (res.op = "distance" /\ A = B /\ IsFinite(T, A)) => FEq(res.val, Zero)

C8_Witness ==
    /\ res.op = "distance"
    /\ T = "double"
    /\ A = B
    /\ A = Vector3D(FNeg(MaxDouble), FNeg(MaxDouble), FNeg(MaxDouble))
    /\ FEq(res.val, Zero)

\* The products and sums of scalarProduct(V, W) stay in the range of int.
DotInRange(V, W) ==
    /\ InRange(V.m_x * W.m_x)
    /\ InRange(V.m_y * W.m_y)
    /\ InRange(V.m_z * W.m_z)
    /\ InRange(V.m_x * W.m_x + V.m_y * W.m_y)
    /\ InRange(V.m_x * W.m_x + V.m_y * W.m_y + V.m_z * W.m_z)

DotDefined ==
    IF T = "int" THEN DotInRange(A, B)
    ELSE \A p \in scalarProduct(T, A, B) : ~IsNaN(p)

\* C9 as stated: scalarProduct(A, B) == scalarProduct(B, A) for all vectors.
C9_DotSymAlways ==
    res.op = "dotSym" => res.val

\* C9, amended: scalarProduct(A, B) == scalarProduct(B, A) whenever no int
\* product or sum overflows and the double result is not NaN.
C9_DotSymDefined ==
    (res.op = "dotSym" /\ DotDefined) => res.val

C9_Witness ==
    /\ res.op = "dotSym"
    /\ T = "int"
    /\ DotDefined
    /\ A = Vector3D(1, 2, 2)
    /\ B = Vector3D(2, 0, 1)
    /\ res.val

\* C10: operator>> stores its three locals into the vector on every call:
\* each component a successful or failed extraction stored a value for has
\* that value, also when the stream ends up failed, and a local no
\* extraction stored into goes with a failed stream.
C10_ReadAlwaysAssigns ==
    pc = "read" =>
        /\ loc[1].init => A.m_x = loc[1].v
        /\ loc[2].init => A.m_y = loc[2].v
        /\ loc[3].init => A.m_z = loc[3].v
        /\ (\E i \in 1..3 : ~loc[i].init) => is.fail

C10_Witness ==
    /\ pc = "read"
    /\ is.fail
    /\ loc[1].init
    /\ ~loc[3].init
    /\ prevA = Vector3D(MinInt, MinInt, MinInt)
    /\ A = Vector3D(7, 0, MaxInt)

====
